---- MODULE Spec2Model ----
(***************************************************************************)
(* Heap sort of out-of-date/cpp/sorting/heap_sort.cpp: heapfy (sift-down), *)
(* build (bottom-up heap construction) and heapsort (extraction loop),     *)
(* over an int array with a sentinel in slot 0 and the process-wide        *)
(* variables length and heap_size.  The program is modelled statement by   *)
(* statement with an explicit call stack, so that every invocation of      *)
(* heapfy and the order of the statements of heapsort's loop are visible.  *)
(***************************************************************************)
EXTENDS Integers, Sequences, FiniteSets

\* Largest element count n the driver reads (heap_sort.cpp:117).
MaxN == 5
\* Largest element value the driver reads; the smallest is the sentinel's value.
MaxVal == 1

\* a[0] = -1, the sentinel (heap_sort.cpp:72).
Sentinel == -1

\* The int values an element may take in the model.
Values == Sentinel..MaxVal

VARIABLES
    a,          \* int *a: the array, slots 0..N (new int[n+1])
    N,          \* main's n: the element count passed to build and heapsort
    length,     \* global int length
    heap_size,  \* global int heap_size
    pc,         \* the statement about to execute
    stack,      \* the call stack: return address and the caller's i
    n,          \* build's local n
    hi,         \* heapfy's parameter i in the running frame
    op,         \* the operation main called last
    a0,         \* history: the array when main called op
    rebuilt,    \* history: op was called right after a build returned
    call,       \* history: a, i, heap_size when heapfy was last called from outside heapfy
    iters,      \* history: executions of the body of heapsort's loop
    k           \* history: the slot the last swap of heapsort's loop moved the root into

vars == <<a, N, length, heap_size, pc, stack, n, hi, op, a0, rebuilt, call, iters, k>>

\* inline int parent(int i) { return (i >> 1); }
parent(i) == i \div 2
\* inline int left(int i) { return (i << 1); }
left(i) == 2 * i
\* Mutant of right: the parentheses dropped, i << 1 + 1, which C++ reads as
\* i << (1 + 1).
right_Precedence(i) == 4 * i
\* inline int right(int i) { return (i << 1) + 1; }
right(i) == 2 * i + 1

\* Mutant of Swap: no tmp, x[p] = x[q]; x[q] = x[p], which copies x[q] over x[p].
Swap_NoTmp(x, p, q) == [x EXCEPT ![p] = x[q]]
\* tmp = x[p]; x[p] = x[q]; x[q] = tmp
Swap(x, p, q) == [x EXCEPT ![p] = x[q], ![q] = x[p]]

\* Mutant of Largest: the comparisons reversed (the min-heap of line 7).
Largest_MinHeap(x, hs, i) ==
    LET lft == left(i)
        rght == right(i)
        l1 == IF lft <= hs /\ x[i] > x[lft] THEN lft ELSE i
    IN  IF rght <= hs /\ x[l1] > x[rght] THEN rght ELSE l1

\* Mutant of Largest: the right child compared with a[i], not a[largest].
Largest_CompareRoot(x, hs, i) ==
    LET lft == left(i)
        rght == right(i)
        l1 == IF lft <= hs /\ x[i] < x[lft] THEN lft ELSE i
    IN  IF rght <= hs /\ x[i] < x[rght] THEN rght ELSE l1

\* Mutant of Largest: the children bounded by length, not heap_size.
Largest_UseLength(x, hs, i) ==
    LET lft == left(i)
        rght == right(i)
        l1 == IF lft <= length /\ x[i] < x[lft] THEN lft ELSE i
    IN  IF rght <= length /\ x[l1] < x[rght] THEN rght ELSE l1

\* heapfy lines 48-52: the index of the largest of a[i], a[left], a[right]
\* among those inside the heap; && short-circuits, so no slot above
\* heap_size is read.
Largest(x, hs, i) ==
    LET lft == left(i)
        rght == right(i)
        l1 == IF lft <= hs /\ x[i] < x[lft] THEN lft ELSE i
    IN  IF rght <= hs /\ x[l1] < x[rght] THEN rght ELSE l1

\* A frame of the call stack: the return address and the caller's i.
Frame(ret, i) == [pc |-> ret, i |-> i]

\* return: pop the frame, continue at the return address with the caller's i.
Return ==
    /\ pc' = Head(stack).pc
    /\ hi' = Head(stack).i
    /\ stack' = Tail(stack)

\* No heapfy call yet.
NoCall == [a |-> <<>>, i |-> 0, hs |-> 0]

\* main lines 116-126: n is read, the array allocated, the sentinel set, the
\* elements read; heap_size counts the elements inserted so far.
Init ==
    /\ N \in 0..MaxN
    /\ a \in [0..N -> Values]
    /\ a[0] = Sentinel
    /\ length = N
    /\ heap_size \in 0..N
    /\ pc = "main"
    /\ stack = <<>>
    /\ n = 0
    /\ hi = 0
    /\ op = "none"
    /\ a0 = a
    /\ rebuilt = FALSE
    /\ call = NoCall
    /\ iters = 0
    /\ k = 0

\* main line 127, heapfy(values, 2), for any node i of the array.
CallHeapfy ==
    /\ pc = "main"
    /\ \E i \in 1..N :
        /\ hi' = i
        /\ call' = [a |-> a, i |-> i, hs |-> heap_size]
    /\ pc' = "heapfy"
    /\ stack' = <<Frame("done", 0)>>
    /\ op' = "heapfy"
    /\ a0' = a
    /\ UNCHANGED <<a, N, length, heap_size, n, rebuilt, iters, k>>

\* main line 134, build(a, n).
CallBuild ==
    /\ pc \in {"main", "built"}
    /\ pc' = "b_init"
    /\ stack' = <<Frame("built", 0)>>
    /\ op' = "build"
    /\ a0' = a
    /\ rebuilt' = (pc = "built")
    /\ UNCHANGED <<a, N, length, heap_size, n, hi, call, iters, k>>

\* main lines 140 and 145, heapsort(values, n) and heapsort(a, n).
CallHeapsort ==
    /\ pc \in {"main", "built"}
    /\ pc' = "s_build"
    /\ stack' = <<Frame("done", 0)>>
    /\ op' = "heapsort"
    /\ a0' = a
    /\ rebuilt' = (pc = "built")
    /\ iters' = 0
    /\ k' = 0
    /\ UNCHANGED <<a, N, length, heap_size, n, hi, call>>

\* Mutant of Heapfy: the swap without the recursive call of line 57.
Heapfy_NoRecursion ==
    /\ pc = "heapfy"
    /\ LET largest == Largest(a, heap_size, hi)
       IN  a' = IF largest # hi THEN Swap(a, hi, largest) ELSE a
    /\ Return
    /\ UNCHANGED <<N, length, heap_size, n, op, a0, rebuilt, call, iters, k>>

\* heapfy lines 46-57: find the largest; if it is not i, swap and recurse.
Heapfy ==
    /\ pc = "heapfy"
    /\ LET largest == Largest(a, heap_size, hi)
       IN  IF largest # hi
           THEN /\ a' = Swap(a, hi, largest)
                /\ stack' = <<Frame("h_ret", hi)>> \o stack
                /\ hi' = largest
                /\ pc' = "heapfy"
           ELSE /\ Return
                /\ a' = a
    /\ UNCHANGED <<N, length, heap_size, n, op, a0, rebuilt, call, iters, k>>

\* heapfy lines 58-59: the recursive call returned; return.
HeapfyRet ==
    /\ pc = "h_ret"
    /\ Return
    /\ UNCHANGED <<a, N, length, heap_size, n, op, a0, rebuilt, call, iters, k>>

\* Mutant of BuildInit: the first internal node taken as (n >> 1) - 1, the
\* last parent of a 0-based heap.
BuildInit_ZeroBased ==
    /\ pc = "b_init"
    /\ heap_size' = N
    /\ length' = N
    /\ a' = [a EXCEPT ![0] = Sentinel]
    /\ n' = (N \div 2) - 1
    /\ pc' = "b_loop"
    /\ UNCHANGED <<N, stack, hi, op, a0, rebuilt, call, iters, k>>

\* build lines 71-73.
BuildInit ==
    /\ pc = "b_init"
    /\ heap_size' = N
    /\ length' = N
    /\ a' = [a EXCEPT ![0] = Sentinel]
    /\ n' = N \div 2
    /\ pc' = "b_loop"
    /\ UNCHANGED <<N, stack, hi, op, a0, rebuilt, call, iters, k>>

\* Mutant of BuildLoop: while (n >= 0), which calls heapfy on the sentinel.
BuildLoop_ToZero ==
    /\ pc = "b_loop"
    /\ IF n >= 0
       THEN /\ pc' = "heapfy"
            /\ hi' = n
            /\ stack' = <<Frame("b_dec", 0)>> \o stack
            /\ call' = [a |-> a, i |-> n, hs |-> heap_size]
       ELSE /\ Return
            /\ call' = call
    /\ UNCHANGED <<a, N, length, heap_size, n, op, a0, rebuilt, iters, k>>

\* build lines 74-75 and 78: the loop test, then heapfy(a, n) or return.
BuildLoop ==
    /\ pc = "b_loop"
    /\ IF n >= 1
       THEN /\ pc' = "heapfy"
            /\ hi' = n
            /\ stack' = <<Frame("b_dec", 0)>> \o stack
            /\ call' = [a |-> a, i |-> n, hs |-> heap_size]
       ELSE /\ Return
            /\ call' = call
    /\ UNCHANGED <<a, N, length, heap_size, n, op, a0, rebuilt, iters, k>>

\* build line 76: n--.
BuildDec ==
    /\ pc = "b_dec"
    /\ n' = n - 1
    /\ pc' = "b_loop"
    /\ UNCHANGED <<a, N, length, heap_size, stack, hi, op, a0, rebuilt, call, iters, k>>

\* build lines 70-78.
build == BuildInit \/ BuildLoop \/ BuildDec

\* heapsort line 93: build(a, n).
SortBuild ==
    /\ pc = "s_build"
    /\ pc' = "b_init"
    /\ stack' = <<Frame("s_loop", 0)>> \o stack
    /\ UNCHANGED <<a, N, length, heap_size, n, hi, op, a0, rebuilt, call, iters, k>>

\* Mutant of SortTest: while (i < heap_size).
SortTest_Strict ==
    /\ pc = "s_loop"
    /\ IF 1 < heap_size
       THEN /\ pc' = "s_swap"
            /\ UNCHANGED <<stack, hi>>
       ELSE Return
    /\ UNCHANGED <<a, N, length, heap_size, n, op, a0, rebuilt, call, iters, k>>

\* heapsort lines 94-95 and 106: while (i <= heap_size) with i = 1.
SortTest ==
    /\ pc = "s_loop"
    /\ IF 1 <= heap_size
       THEN /\ pc' = "s_swap"
            /\ UNCHANGED <<stack, hi>>
       ELSE Return
    /\ UNCHANGED <<a, N, length, heap_size, n, op, a0, rebuilt, call, iters, k>>

\* heapsort lines 96-98: swap a[heap_size] and a[i].
SortSwap ==
    /\ pc = "s_swap"
    /\ a' = Swap(a, heap_size, 1)
    /\ k' = heap_size
    /\ iters' = iters + 1
    /\ pc' = "s_dec"
    /\ UNCHANGED <<N, length, heap_size, stack, n, hi, op, a0, rebuilt, call>>

\* heapsort line 102: heap_size--.
SortDec ==
    /\ pc = "s_dec"
    /\ heap_size' = heap_size - 1
    /\ pc' = "s_call"
    /\ UNCHANGED <<a, N, length, stack, n, hi, op, a0, rebuilt, call, iters, k>>

\* heapsort line 104: heapfy(a, i).
SortCall ==
    /\ pc = "s_call"
    /\ pc' = "heapfy"
    /\ hi' = 1
    /\ stack' = <<Frame("s_loop", 0)>> \o stack
    /\ call' = [a |-> a, i |-> 1, hs |-> heap_size]
    /\ UNCHANGED <<a, N, length, heap_size, n, op, a0, rebuilt, iters, k>>

\* Mutant of heapsort: heap_size decreased after calling heapfy, the order
\* the comment of lines 100-101 asks about: swap, heapfy(a, i), heap_size--.
heapsort_DecAfterHeapfy ==
    \/ SortBuild
    \/ SortTest
    \/ /\ pc = "s_swap"
       /\ a' = Swap(a, heap_size, 1)
       /\ k' = heap_size
       /\ iters' = iters + 1
       /\ pc' = "heapfy"
       /\ hi' = 1
       /\ stack' = <<Frame("s_dec", 0)>> \o stack
       /\ call' = [a |-> a', i |-> 1, hs |-> heap_size]
       /\ UNCHANGED <<N, length, heap_size, n, op, a0, rebuilt>>
    \/ /\ pc = "s_dec"
       /\ heap_size' = heap_size - 1
       /\ pc' = "s_loop"
       /\ UNCHANGED <<a, N, length, stack, n, hi, op, a0, rebuilt, call, iters, k>>

\* heapsort lines 92-106.
heapsort == SortBuild \/ SortTest \/ SortSwap \/ SortDec \/ SortCall

\* heapfy lines 45-59.
heapfy == Heapfy \/ HeapfyRet

\* main lines 115-152: the calls the driver makes.
main == CallHeapfy \/ CallBuild \/ CallHeapsort

Next == main \/ heapfy \/ build \/ heapsort

Spec == Init /\ [][Next]_vars

\* The program is sequential: a statement that can execute does.
FairSpec == Spec /\ WF_vars(Next)

(***************************************************************************)
(* Vocabulary of the properties.                                           *)
(***************************************************************************)

\* Node j lies in the subtree rooted at node r (parent links, lines 21 and 29).
RECURSIVE InSubtree(_, _)
InSubtree(r, j) ==
    IF j < r \/ j < 1 THEN FALSE
    ELSE IF j = r THEN TRUE
    ELSE InSubtree(r, parent(j))

\* The max-heap property A[parent(i)] >= A[i] (line 8) on the nodes below r
\* in the subtree of r, within the live region 1..hs.
HeapBelow(x, hs, r) ==
    \A j \in 1..hs : (j # r /\ InSubtree(r, j)) => x[parent(j)] >= x[j]

\* x[lo..hi] is in non-decreasing order.
Ascending(x, p, q) == \A j \in p..(q - 1) : x[j] <= x[j + 1]

\* How many of the slots 1..m of x hold v.
Count(x, m, v) == Cardinality({j \in 1..m : x[j] = v})

\* A statement of build is executing, or heapfy on build's behalf.
InBuild ==
    \/ pc \in {"b_init", "b_loop", "b_dec"}
    \/ \E f \in 1..Len(stack) : stack[f].pc = "b_dec"

\* build has just returned, to main or to heapsort before its loop.
BuildReturned == pc = "built" \/ (pc = "s_loop" /\ iters = 0)

\* heapsort has returned to main.
SortReturned == pc = "done" /\ op = "heapsort"

\* The heapfy call made from main, build or heapsort has just returned.
HeapfyReturned ==
    \/ pc = "b_dec"
    \/ pc = "s_loop" /\ iters >= 1
    \/ pc = "done" /\ op = "heapfy"

\* At that call, i was a live node and both child subtrees were max-heaps.
CallPre ==
    /\ 1 <= call.i
    /\ call.i <= call.hs
    /\ HeapBelow(call.a, call.hs, left(call.i))
    /\ HeapBelow(call.a, call.hs, right(call.i))

(***************************************************************************)
(* C1. Sortedness: when heapsort(a, n) has returned, a[i] <= a[i+1] for    *)
(* every 1 <= i < n.                                                       *)
(***************************************************************************)
C1_Sorted == SortReturned => Ascending(a, 1, N)

C1_Witness ==
    /\ SortReturned
    /\ N >= 4
    /\ ~Ascending(a0, 1, N)
    /\ a[1] < a[N]

(***************************************************************************)
(* C2. Permutation: when heapsort(a, n) has returned, every value occurs   *)
(* in a[1..n] as many times as it did when heapsort was called.            *)
(***************************************************************************)
C2_Permutation ==
    SortReturned => \A v \in Values : Count(a, N, v) = Count(a0, N, v)

C2_Witness ==
    /\ SortReturned
    /\ N >= 4
    /\ a # a0
    /\ \E v \in Values : Count(a0, N, v) >= 2
    /\ Count(a0, N, Sentinel) >= 1

(***************************************************************************)
(* C3. When build(a, n) has returned, heap_size = n and                    *)
(* a[i/2] >= a[i] for every i in 2..n.                                     *)
(***************************************************************************)
C3_HeapAfterBuild ==
    BuildReturned => (heap_size = N /\ \A i \in 2..N : a[i \div 2] >= a[i])

C3_Witness ==
    /\ pc = "built"
    /\ N >= 4
    /\ ~HeapBelow(a0, N, 1)
    /\ a # a0

(***************************************************************************)
(* C4. If heapfy(a, i) is called with 1 <= i <= heap_size and the subtrees *)
(* of left(i) and right(i) are max-heaps within the live region, then on   *)
(* return every node below i in the subtree of i is <= its parent.         *)
(***************************************************************************)
C4_HeapfyContract ==
    (HeapfyReturned /\ CallPre) => HeapBelow(a, heap_size, call.i)

C4_Witness ==
    /\ pc = "done"
    /\ op = "heapfy"
    /\ CallPre
    /\ call.i = 1
    /\ call.hs >= 4
    /\ a[4] # call.a[4]

(***************************************************************************)
(* C5 as stated: every heapfy invocation made during build and heapsort,   *)
(* recursive ones included, has 1 <= i <= heap_size.                       *)
(***************************************************************************)
C5_Original ==
    (pc = "heapfy" /\ op \in {"build", "heapsort"}) =>
        (1 <= hi /\ hi <= heap_size)

(***************************************************************************)
(* C5 amended: every such invocation has i >= 1, and i <= heap_size except *)
(* for the call heapsort's loop makes on the root after the last           *)
(* extraction, where i = 1 and heap_size = 0 and heapfy swaps nothing.     *)
(***************************************************************************)
C5_Amended ==
    (pc = "heapfy" /\ op \in {"build", "heapsort"}) =>
        /\ 1 <= hi
        /\ \/ hi <= heap_size
           \/ /\ hi = 1
              /\ heap_size = 0
              /\ Head(stack).pc = "s_loop"
              /\ iters = N
              /\ Largest(a, heap_size, hi) = hi

C5_Witness ==
    /\ pc = "heapfy"
    /\ op = "heapsort"
    /\ hi = 1
    /\ heap_size = 0
    /\ N >= 2

(***************************************************************************)
(* C6. build(a, n) called right after build(a, n) returned leaves a[0..n], *)
(* heap_size and length as the first call left them, at every statement of *)
(* the second call (so no swap moves an element).                          *)
(***************************************************************************)
C6_BuildIdempotent ==
    (rebuilt /\ (InBuild \/ BuildReturned)) =>
        (a = a0 /\ heap_size = N /\ length = N)

C6_Witness ==
    /\ rebuilt
    /\ pc = "built"
    /\ N >= 4
    /\ a[1] > a[N]
    /\ call.i = 1

(***************************************************************************)
(* C7. If heapfy(a, i) is called with 1 <= i <= heap_size and both child   *)
(* subtrees max-heaps, then on return every slot outside the subtree of i  *)
(* within 1..heap_size (slot 0, the slots above heap_size, the ancestors   *)
(* and the sibling subtrees of i) holds what it held at the call, and      *)
(* heap_size is what it was.                                               *)
(***************************************************************************)
C7_Locality ==
    (HeapfyReturned /\ CallPre) =>
        /\ heap_size = call.hs
        /\ \A j \in 0..N :
            ~(j <= call.hs /\ InSubtree(call.i, j)) => a[j] = call.a[j]

C7_Witness ==
    /\ HeapfyReturned
    /\ CallPre
    /\ call.i = 2
    /\ call.hs = 4
    /\ N = 5
    /\ a # call.a
    /\ a[1] < a[2]
    /\ a[5] > a[2]

(***************************************************************************)
(* C8. heapsort terminates; the body of its loop executes exactly n times; *)
(* each change of heap_size in the loop is a decrement by one, never below *)
(* 0; and heap_size = 0 when it returns.                                   *)
(***************************************************************************)
C8_Termination ==
    /\ (pc = "s_build") ~> SortReturned
    /\ [](SortReturned => (iters = N /\ heap_size = 0))
    /\ [][(op = "heapsort" /\ ~InBuild /\ pc # "s_build" /\ heap_size' # heap_size) =>
            (heap_size' = heap_size - 1 /\ heap_size' >= 0 /\ heap_size' = N - iters)]_vars

C8_Witness ==
    /\ SortReturned
    /\ N >= 3
    /\ iters = N
    /\ heap_size = 0

(***************************************************************************)
(* C9. In every iteration of heapsort's loop heap_size is decremented      *)
(* after the swap and before heapfy is called on the root: while heapfy    *)
(* runs, the slot k that just received the root is heap_size + 1, outside  *)
(* the live region, and holds a value >= every live one; and from the swap *)
(* until heapsort returns no step writes slot k or a slot above it.        *)
(***************************************************************************)
C9_ExtractionOrder ==
    /\ []((op = "heapsort" /\ pc \in {"s_call", "heapfy", "h_ret"} /\ ~InBuild) =>
            /\ k = heap_size + 1
            /\ \A j \in 1..heap_size : a[j] <= a[k])
    /\ [][(op = "heapsort" /\ k >= 1) =>
            \A j \in k..N : a'[j] = a[j]]_vars

C9_Witness ==
    /\ op = "heapsort"
    /\ pc = "h_ret"
    /\ k = 4
    /\ heap_size = 3
    /\ a[k] > a[1]

(***************************************************************************)
(* C10. After build and after every completed iteration of heapsort's      *)
(* loop: a[1..heap_size] is a max-heap, a[heap_size+1..n] is in            *)
(* non-decreasing order, and every value in a[heap_size+1..n] is >= every  *)
(* value in a[1..heap_size].                                               *)
(***************************************************************************)
C10_LoopInvariant ==
    (op = "heapsort" /\ pc = "s_loop") =>
        /\ HeapBelow(a, heap_size, 1)
        /\ Ascending(a, heap_size + 1, N)
        /\ \A i \in 1..heap_size : \A j \in (heap_size + 1)..N : a[i] <= a[j]

C10_Witness ==
    /\ op = "heapsort"
    /\ pc = "s_loop"
    /\ N = 5
    /\ heap_size = 3
    /\ a[4] < a[5]
    /\ a[1] > a[3]
    /\ a[1] <= a[4]
    /\ a # a0

====
